---- MODULE Spec2Model ----
(***************************************************************************)
(* EasyBackup: a program of backup statements is parsed, its unconditional *)
(* statements are executed during load, its conditional statements are     *)
(* registered as time conditioned tasks, and App.run polls the registered  *)
(* tasks once per pass, sleeping 60 seconds between passes.                *)
(*                                                                         *)
(* Time is the wall clock in whole seconds.  The clock never goes back,    *)
(* time.sleep(60) lasts 60 seconds and a pass takes as long as the copies  *)
(* it makes.  A path is a sequence of names; the filesystem maps each      *)
(* existing path to a node.                                                *)
(***************************************************************************)
EXTENDS Integers, Sequences, FiniteSets, TLC

(***************************************************************************)
(* Bounds of the model.                                                    *)
(***************************************************************************)
MaxProgLen == 2      \* statements per program
MaxPasses == 3       \* sleeps of the poll loop that the model follows
CopySeconds == 45    \* duration of a slow copy
AtHour == 17         \* hour of the in-range `at H : M` statement
AtMinute == 22       \* minute of the in-range `at H : M` statement
MaxEvery == 2        \* largest N of `every N minutes`

(***************************************************************************)
(* Program constants.                                                      *)
(***************************************************************************)
SecondsPerMinute == 60    \* delta.total_seconds() / 60
\* Mutant: the loop sleeps half a minute.
SleepSeconds_HalfMinute == SecondsPerMinute \div 2
SleepSeconds == 60        \* time.sleep(60)
MinutesPerHour == 60      \* every_minutes(nb_hours * 60), every_minutes(60)
HoursPerDay == 24         \* datetime: now.hour is in 0..23

(***************************************************************************)
(* program              the statements of the program file                 *)
(* fs                   the filesystem                                     *)
(* clock                what datetime.datetime.now() returns               *)
(* pc                   "init", "load" (the for loop of _parse_run),       *)
(*                      "loop" (the while loop of run), "returned" (run    *)
(*                      returned) or "exited" (an exception left the app)  *)
(* exc                  the exception that ended the process, or "none"    *)
(* ip                   the statement the loader is at                     *)
(* conditional_backups  App._conditional_backups                           *)
(* ti                   the task the pass is at                            *)
(* passes               history: the sleeps done                           *)
(* ran                  history: the unconditional backups run by load     *)
(* lastNow              history: per task, its condition's last reading    *)
(* tick                 history: the last evaluation of a task             *)
(* errors               the number of log.error calls                      *)
(***************************************************************************)
VARIABLES program, fs, clock, pc, exc, ip, conditional_backups, ti, passes,
          ran, lastNow, tick, errors

vars == <<program, fs, clock, pc, exc, ip, conditional_backups, ti, passes,
          ran, lastNow, tick, errors>>

(***************************************************************************)
(* datetime: the hour and minute fields of a clock reading.                *)
(***************************************************************************)
Hour(t) == (t \div (SecondsPerMinute * MinutesPerHour)) % HoursPerDay
Minute(t) == (t \div SecondsPerMinute) % MinutesPerHour

\* int(x): Python truncates toward zero.
TruncDiv(a, b) == IF a >= 0 THEN a \div b ELSE -((-a) \div b)


(***************************************************************************)
(* The filesystem collaborator: os.path and shutil.                        *)
(***************************************************************************)
IsPrefix(p, q) == Len(p) <= Len(q) /\ SubSeq(q, 1, Len(p)) = p
Suffix(p, q) == SubSeq(q, Len(p) + 1, Len(q))      \* q below p, relative to p
Parent(p) == SubSeq(p, 1, Len(p) - 1)

exists(f, p) == p \in DOMAIN f
isdir(f, p) == p \in DOMAIN f /\ f[p].kind = "dir"

\* A new entry can be made at p: its parent is the root or a directory.
ParentIsDir(f, p) == Len(p) = 1 \/ isdir(f, Parent(p))

\* shutil.rmtree(p): p must be a directory; it goes with all that is below.
\* Mutant: only the entry itself is removed, what is below it stays.
rmtree_TopOnly(f, p, fails) ==
    IF fails \/ ~isdir(f, p)
    THEN [ok |-> FALSE, fs |-> f]
    ELSE [ok |-> TRUE, fs |-> [q \in DOMAIN f \ {p} |-> f[q]]]

rmtree(f, p, fails) ==
    IF fails \/ ~isdir(f, p)
    THEN [ok |-> FALSE, fs |-> f]
    ELSE [ok |-> TRUE,
          fs |-> [q \in {x \in DOMAIN f : ~IsPrefix(p, x)} |-> f[q]]]

\* shutil.copytree(s, d): d must not exist; the tree below s, as listed when
\* the copy starts, is recreated below d.
copytree(f, s, d, fails) ==
    IF fails \/ ~isdir(f, s) \/ exists(f, d) \/ ~ParentIsDir(f, d)
    THEN [ok |-> FALSE, fs |-> f]
    ELSE LET new == {d \o Suffix(s, q) : q \in {x \in DOMAIN f : IsPrefix(s, x)}}
         IN [ok |-> TRUE,
             fs |-> [q \in DOMAIN f \cup new |->
                        IF q \in new THEN f[s \o Suffix(d, q)] ELSE f[q]]]

\* shutil.copy2(s, d): into d when d is a directory, else onto d.
copy2(f, s, d, fails) ==
    LET target == IF isdir(f, d) THEN d \o <<s[Len(s)]>> ELSE d
    IN IF fails \/ target = s \/ isdir(f, target) \/ ~ParentIsDir(f, target)
       THEN [ok |-> FALSE, fs |-> f]
       ELSE [ok |-> TRUE,
             fs |-> [q \in DOMAIN f \cup {target} |->
                        IF q = target THEN f[s] ELSE f[q]]]

\* The primitive the environment may make fail during one backup.
FailPoints == {"none", "rmtree", "copytree", "copy2"}

(***************************************************************************)
(* DirectBackupTask._run_backup: the outcome of one backup of source to    *)
(* destination on filesystem f.  exc is the exception that leaves the      *)
(* method ("none" when it returns), error tells whether log.error was      *)
(* called, copied whether a copy primitive completed.                      *)
(***************************************************************************)
\* Lines 44-57: the source exists.
BackupExisting(f, source, destination, failAt) ==
    IF isdir(f, source)
    THEN LET r1 == IF exists(f, destination)
                   THEN rmtree(f, destination, failAt = "rmtree")
                   ELSE [ok |-> TRUE, fs |-> f]
             r2 == copytree(r1.fs, source, destination, failAt = "copytree")
         IN IF ~r1.ok
            THEN [fs |-> r1.fs, exc |-> "OSError", error |-> FALSE, copied |-> FALSE]
            ELSE IF ~r2.ok
                 THEN [fs |-> r2.fs, exc |-> "OSError", error |-> FALSE, copied |-> FALSE]
                 ELSE [fs |-> r2.fs, exc |-> "none", error |-> FALSE, copied |-> TRUE]
    ELSE LET r == copy2(f, source, destination, failAt = "copy2")
         IN IF ~r.ok
            THEN [fs |-> r.fs, exc |-> "OSError", error |-> FALSE, copied |-> FALSE]
            ELSE [fs |-> r.fs, exc |-> "none", error |-> FALSE, copied |-> TRUE]

\* Mutant: no test of the source; the copy of a missing source raises.
DirectBackup_NoExistsTest(f, source, destination, failAt) ==
    IF exists(f, source)
    THEN BackupExisting(f, source, destination, failAt)
    ELSE [fs |-> f, exc |-> "OSError", error |-> FALSE, copied |-> FALSE]

DirectBackup(f, source, destination, failAt) ==
    IF exists(f, source)
    THEN BackupExisting(f, source, destination, failAt)
    ELSE [fs |-> f, exc |-> "none", error |-> TRUE, copied |-> FALSE]

\* What a backup may take: nothing is copied when the source is missing.
Durations(f, source) == IF exists(f, source) THEN {0, CopySeconds} ELSE {0}

(***************************************************************************)
(* The time conditions.  begin_dt is the task's creation date, now the     *)
(* reading of datetime.datetime.now() taken by the condition function.     *)
(***************************************************************************)
\* Mutant: the minutes are counted from the epoch, not from the creation date.
every_minutes_FromEpoch(nb_minutes, begin_dt, now) ==
    TruncDiv(now, SecondsPerMinute) % nb_minutes = 0

every_minutes(nb_minutes, begin_dt, now) ==
    LET delta == now - begin_dt
        elapsed_minutes == TruncDiv(delta, SecondsPerMinute)
    IN elapsed_minutes % nb_minutes = 0

\* elapsed_minutes % 0 raises ZeroDivisionError.
every_minutes_raises(nb_minutes) == nb_minutes = 0

\* Mutant: a task does not match in the minute it was created in.
specific_time_NotAtCreation(hour, minute, begin_dt, now) ==
    /\ Hour(now) = hour /\ Minute(now) = minute
    /\ now \div SecondsPerMinute # begin_dt \div SecondsPerMinute

\* Mutant: an hour and a minute out of range are taken modulo 24 and 60.
specific_time_Wraps(hour, minute, begin_dt, now) ==
    /\ Hour(now) = hour % HoursPerDay
    /\ Minute(now) = minute % MinutesPerHour

specific_time(hour, minute, begin_dt, now) ==
    Hour(now) = hour /\ Minute(now) = minute

\* A registered condition: the closure and the values it captured.
EveryCond(n) == [type |-> "every_minutes", n |-> n, hour |-> 0, minute |-> 0]
AtCond(h, m) == [type |-> "specific_time", n |-> 0, hour |-> h, minute |-> m]

ConditionRaises(cond) ==
    cond.type = "every_minutes" /\ every_minutes_raises(cond.n)

time_condition(cond, begin_dt, now) ==
    IF cond.type = "every_minutes"
    THEN every_minutes(cond.n, begin_dt, now)
    ELSE specific_time(cond.hour, cond.minute, begin_dt, now)


(***************************************************************************)
(* Programs.  A statement is what the parser makes of one line: its kind   *)
(* is the data of the tree node that the loader dispatches on ("direct"    *)
(* for a statement with two children), or "malformed" for a line that the  *)
(* grammar rejects.                                                        *)
(***************************************************************************)
Stmt(kind, source, destination, n, hour, minute) ==
    [kind |-> kind, source |-> source, destination |-> destination,
     n |-> n, hour |-> hour, minute |-> minute]

FileA == <<"a">>
FileB == <<"b">>
DirD == <<"d">>
DirE == <<"e">>

\* The conditional statements, one or more of each form.
CondStmts ==
    {Stmt("every_nb_minutes", FileA, FileB, n, 0, 0) : n \in 0..MaxEvery}
    \cup {Stmt("every_nb_hours", DirD, DirE, n, 0, 0) : n \in 0..MaxEvery}
    \cup {Stmt("every_hour", FileA, FileB, 0, 0, 0),
          Stmt("every_minute", DirD, DirE, 0, 0, 0),
          Stmt("precise_time_expression", DirD, DirE, 0, AtHour, AtMinute),
          Stmt("precise_time_expression", FileA, FileB, 0,
               AtHour + HoursPerDay, AtMinute + MinutesPerHour)}

DirectStmts ==
    {Stmt("direct", FileA, FileB, 0, 0, 0),
     Stmt("direct", DirD, DirE, 0, 0, 0)}

\* The statements of the short programs.
Stmts ==
    DirectStmts
    \cup {Stmt("every_nb_minutes", FileA, FileB, n, 0, 0) : n \in 0..MaxEvery}
    \cup {Stmt("every_minute", DirD, DirE, 0, 0, 0),
          Stmt("precise_time_expression", DirD, DirE, 0, AtHour, AtMinute),
          Stmt("malformed", FileA, FileB, 0, 0, 0)}

\* Every program of up to MaxProgLen statements, and every program of two
\* conditional statements of any form with an unconditional one in between.
Programs ==
    UNION {[1..k -> Stmts] : k \in 0..MaxProgLen}
    \cup {<<c1, d, c2>> : c1 \in CondStmts, d \in DirectStmts, c2 \in CondStmts}

\* The grammar: a statement is `backup PATH to PATH [: time_expr]`.
WellFormed(stmt) == stmt.kind # "malformed"

\* Lark.parse: the whole text is parsed, or the parse raises.
\* Mutant: a program is rejected only when its first statement is malformed.
Parses_FirstOnly(prog) == Len(prog) = 0 \/ WellFormed(prog[1])

Parses(prog) == \A i \in 1..Len(prog) : WellFormed(prog[i])

IsDirect(inst) == inst.kind = "direct"      \* len(inst.children) == 2

\* The time condition that the loader builds for a conditional statement.
\* Mutant: the hours of `every N hours` are taken for minutes.
CondOf_HoursAsMinutes(inst) ==
    CASE inst.kind = "every_nb_minutes" -> EveryCond(inst.n)
      [] inst.kind = "every_nb_hours" -> EveryCond(inst.n)
      [] inst.kind = "every_hour" -> EveryCond(MinutesPerHour)
      [] inst.kind = "every_minute" -> EveryCond(1)
      [] inst.kind = "precise_time_expression" -> AtCond(inst.hour, inst.minute)

CondOf(inst) ==
    CASE inst.kind = "every_nb_minutes" -> EveryCond(inst.n)
      [] inst.kind = "every_nb_hours" -> EveryCond(inst.n * MinutesPerHour)
      [] inst.kind = "every_hour" -> EveryCond(MinutesPerHour)
      [] inst.kind = "every_minute" -> EveryCond(1)
      [] inst.kind = "precise_time_expression" -> AtCond(inst.hour, inst.minute)

\* TimeConditionedBackup.__init__
TimeConditionedBackup(source, destination, cond, now) ==
    [source |-> source, destination |-> destination,
     time_condition |-> cond, creation_date |-> now]

(***************************************************************************)
(* Initial states: the filesystem and the clock when the process starts.   *)
(***************************************************************************)
File(data) == [kind |-> "file", data |-> data]
Dir == [kind |-> "dir", data |-> 0]

MkFS(entries) == [p \in {e[1] : e \in entries} |->
                     (CHOOSE e \in entries : e[1] = p)[2]]

\* Sources present, with a destination of the directory that holds older
\* content; or sources missing.
InitFS ==
    {MkFS({<<FileA, File(1)>>,
           <<DirD, Dir>>, <<DirD \o <<"f">>, File(2)>>,
           <<DirE, Dir>>, <<DirE \o <<"g">>, File(9)>>}),
     MkFS({<<FileB, File(9)>>, <<DirE, Dir>>, <<DirE \o <<"g">>, File(9)>>})}

\* The process starts half a minute before AtHour:AtMinute.
AtSeconds == (AtHour * MinutesPerHour + AtMinute) * SecondsPerMinute
StartTime == AtSeconds - SecondsPerMinute \div 2

NoTick == [task |-> 0, now |-> 0, end |-> 0, matched |-> FALSE, pass |-> 0,
           exc |-> "none", source_missing |-> FALSE]

InitWith(progs, filesystems) ==
    /\ program \in progs
    /\ fs \in filesystems
    /\ clock = StartTime
    /\ pc = "init"
    /\ exc = "none"
    /\ ip = 1
    /\ conditional_backups = <<>>
    /\ ti = 1
    /\ passes = 0
    /\ ran = <<>>
    /\ lastNow = <<>>
    /\ tick = NoTick
    /\ errors = 0

Init == InitWith(Programs, InitFS)

(***************************************************************************)
(* Programs of one statement over the pairs of paths that a program can    *)
(* name on a filesystem with nested directories: a destination that is     *)
(* absent, a file, a directory, the source itself, inside the source, or   *)
(* around the source; and of one `at H : M` statement with H and M in      *)
(* range or a day, an hour, beyond it.                                     *)
(***************************************************************************)
DirS == DirD \o <<"s">>
PathFS ==
    MkFS({<<FileA, File(1)>>, <<FileB, File(9)>>,
          <<DirD, Dir>>, <<DirD \o <<"f">>, File(2)>>,
          <<DirS, Dir>>, <<DirS \o <<"h">>, File(3)>>,
          <<DirE, Dir>>, <<DirE \o <<"g">>, File(9)>>})

PathPairs ==
    {<<DirD, DirE>>, <<DirD, <<"n">>>>, <<DirD, FileB>>, <<DirD, DirD>>,
     <<DirD, DirD \o <<"x">>>>, <<DirD, DirS>>, <<DirS, DirD>>,
     <<FileA, FileA>>, <<FileA, FileB>>, <<FileA, DirE>>,
     <<DirD \o <<"f">>, DirD>>}

PathPrograms ==
    {<<Stmt(kind, pair[1], pair[2], 0, 0, 0)>> :
        kind \in {"direct", "every_minute"}, pair \in PathPairs}
    \cup {<<Stmt("every_nb_minutes", pair[1], pair[2], n, 0, 0)>> :
            n \in {0, MaxEvery}, pair \in PathPairs}
    \cup {<<Stmt("precise_time_expression", FileA, FileB, 0, h, m)>> :
            h \in {AtHour, AtHour + HoursPerDay},
            m \in {AtMinute, AtMinute + MinutesPerHour}}

InitPaths == InitWith(PathPrograms, {PathFS})

(***************************************************************************)
(* App._parse_run, lines 129-131: the whole program is parsed before the   *)
(* first statement is looked at.                                           *)
(***************************************************************************)
Parse ==
    /\ pc = "init"
    /\ IF Parses(program)
       THEN pc' = "load" /\ exc' = "none"
       ELSE pc' = "exited" /\ exc' = "ParseError"
    /\ UNCHANGED <<program, fs, clock, ip, conditional_backups, ti, passes,
                   ran, lastNow, tick, errors>>

(***************************************************************************)
(* App._parse_run, one iteration of `for inst in tree.children`.           *)
(***************************************************************************)
\* Mutant: the unconditional branch also registers the statement as a task.
LoadDirect_AlsoRegisters ==
    /\ pc = "load"
    /\ ip <= Len(program)
    /\ IsDirect(program[ip])
    /\ \E failAt \in FailPoints, dur \in Durations(fs, program[ip].source) :
         LET inst == program[ip]
             r == DirectBackup(fs, inst.source, inst.destination, failAt)
         IN /\ fs' = r.fs
            /\ clock' = clock + dur
            /\ ran' = Append(ran, [inst |-> ip, start |-> clock, end |-> clock + dur])
            /\ errors' = IF r.error THEN errors + 1 ELSE errors
            /\ exc' = r.exc
            /\ conditional_backups' =
                 Append(conditional_backups,
                        TimeConditionedBackup(inst.source, inst.destination,
                                              EveryCond(1), clock))
            /\ lastNow' = Append(lastNow, -1)
            /\ IF r.exc = "none"
               THEN pc' = "load" /\ ip' = ip + 1
               ELSE pc' = "exited" /\ ip' = ip
    /\ UNCHANGED <<program, ti, passes, tick>>

LoadDirect ==
    /\ pc = "load"
    /\ ip <= Len(program)
    /\ IsDirect(program[ip])
    /\ \E failAt \in FailPoints, dur \in Durations(fs, program[ip].source) :
         LET inst == program[ip]
             r == DirectBackup(fs, inst.source, inst.destination, failAt)
         IN /\ fs' = r.fs
            /\ clock' = clock + dur
            /\ ran' = Append(ran, [inst |-> ip, start |-> clock, end |-> clock + dur])
            /\ errors' = IF r.error THEN errors + 1 ELSE errors
            /\ exc' = r.exc
            /\ IF r.exc = "none"
               THEN pc' = "load" /\ ip' = ip + 1
               ELSE pc' = "exited" /\ ip' = ip
    /\ UNCHANGED <<program, conditional_backups, ti, passes, lastNow, tick>>

\* Mutant: a new task is put at the head of the task list.
LoadConditional_Prepends ==
    /\ pc = "load"
    /\ ip <= Len(program)
    /\ ~IsDirect(program[ip])
    /\ LET inst == program[ip]
       IN conditional_backups' =
            <<TimeConditionedBackup(inst.source, inst.destination,
                                    CondOf(inst), clock)>> \o conditional_backups
    /\ lastNow' = Append(lastNow, -1)
    /\ ip' = ip + 1
    /\ UNCHANGED <<program, fs, clock, pc, exc, ti, passes, ran, tick, errors>>

LoadConditional ==
    /\ pc = "load"
    /\ ip <= Len(program)
    /\ ~IsDirect(program[ip])
    /\ LET inst == program[ip]
       IN conditional_backups' =
            Append(conditional_backups,
                   TimeConditionedBackup(inst.source, inst.destination,
                                         CondOf(inst), clock))
    /\ lastNow' = Append(lastNow, -1)
    /\ ip' = ip + 1
    /\ UNCHANGED <<program, fs, clock, pc, exc, ti, passes, ran, tick, errors>>

(***************************************************************************)
(* App.run, line 121: the loop is entered with a non-empty task list only. *)
(***************************************************************************)
\* Mutant: the loop sleeps before its first pass.
Run_SleepsFirst ==
    /\ pc = "load"
    /\ ip > Len(program)
    /\ IF Len(conditional_backups) > 0
       THEN pc' = "loop" /\ ti' = 1 /\ passes' = passes + 1
            /\ clock' = clock + SleepSeconds
       ELSE pc' = "returned" /\ ti' = ti /\ passes' = passes /\ clock' = clock
    /\ UNCHANGED <<program, fs, exc, ip, conditional_backups,
                   ran, lastNow, tick, errors>>

\* Mutant: the loop is entered whatever the task list holds.
Run_AlwaysLoops ==
    /\ pc = "load"
    /\ ip > Len(program)
    /\ pc' = "loop"
    /\ ti' = 1
    /\ UNCHANGED <<program, fs, clock, exc, ip, conditional_backups, passes,
                   ran, lastNow, tick, errors>>

Run ==
    /\ pc = "load"
    /\ ip > Len(program)
    /\ IF Len(conditional_backups) > 0
       THEN pc' = "loop" /\ ti' = 1
       ELSE pc' = "returned" /\ ti' = ti
    /\ UNCHANGED <<program, fs, clock, exc, ip, conditional_backups, passes,
                   ran, lastNow, tick, errors>>

(***************************************************************************)
(* App.run, one iteration of `for backup_task in self._conditional_backups`*)
(* TimeConditionedBackup._run_backup reads the clock in its condition and  *)
(* delegates to the direct backup when the condition holds.                *)
(***************************************************************************)
EvalRaises ==
    /\ pc = "loop"
    /\ ti <= Len(conditional_backups)
    /\ ConditionRaises(conditional_backups[ti].time_condition)
    /\ pc' = "exited"
    /\ exc' = "ZeroDivisionError"
    /\ tick' = [task |-> ti, now |-> clock, end |-> clock, matched |-> FALSE,
                pass |-> passes,
                exc |-> "ZeroDivisionError", source_missing |-> FALSE]
    /\ lastNow' = [lastNow EXCEPT ![ti] = clock]
    /\ UNCHANGED <<program, fs, clock, ip, conditional_backups, ti, passes,
                   ran, errors>>

\* Mutant: a task that does not match is anchored anew at this reading.
EvalSkip_Reanchors ==
    /\ pc = "loop"
    /\ ti <= Len(conditional_backups)
    /\ LET task == conditional_backups[ti]
       IN /\ ~ConditionRaises(task.time_condition)
          /\ ~time_condition(task.time_condition, task.creation_date, clock)
    /\ tick' = [task |-> ti, now |-> clock, end |-> clock, matched |-> FALSE,
                pass |-> passes, exc |-> "none", source_missing |-> FALSE]
    /\ lastNow' = [lastNow EXCEPT ![ti] = clock]
    /\ ti' = ti + 1
    /\ conditional_backups' =
         [conditional_backups EXCEPT ![ti].creation_date = clock]
    /\ UNCHANGED <<program, fs, clock, pc, exc, ip, passes, ran, errors>>

EvalSkip ==
    /\ pc = "loop"
    /\ ti <= Len(conditional_backups)
    /\ LET task == conditional_backups[ti]
       IN /\ ~ConditionRaises(task.time_condition)
          /\ ~time_condition(task.time_condition, task.creation_date, clock)
    /\ tick' = [task |-> ti, now |-> clock, end |-> clock, matched |-> FALSE,
                pass |-> passes,
                exc |-> "none", source_missing |-> FALSE]
    /\ lastNow' = [lastNow EXCEPT ![ti] = clock]
    /\ ti' = ti + 1
    /\ UNCHANGED <<program, fs, clock, pc, exc, ip, conditional_backups, passes,
                   ran, errors>>

EvalBackup ==
    /\ pc = "loop"
    /\ ti <= Len(conditional_backups)
    /\ LET task == conditional_backups[ti]
       IN /\ ~ConditionRaises(task.time_condition)
          /\ time_condition(task.time_condition, task.creation_date, clock)
          /\ \E failAt \in FailPoints, dur \in Durations(fs, task.source) :
               LET r == DirectBackup(fs, task.source, task.destination, failAt)
               IN /\ fs' = r.fs
                  /\ clock' = clock + dur
                  /\ errors' = IF r.error THEN errors + 1 ELSE errors
                  /\ exc' = r.exc
                  /\ tick' = [task |-> ti, now |-> clock, end |-> clock + dur,
                              matched |-> TRUE,
                              pass |-> passes, exc |-> r.exc,
                              source_missing |-> r.error]
                  /\ IF r.exc = "none"
                     THEN pc' = "loop" /\ ti' = ti + 1
                     ELSE pc' = "exited" /\ ti' = ti
    /\ lastNow' = [lastNow EXCEPT ![ti] = clock]
    /\ UNCHANGED <<program, ip, conditional_backups, passes, ran>>

(***************************************************************************)
(* App.run, lines 125-126: after the full pass, time.sleep(60).            *)
(***************************************************************************)
\* Mutant: the sleep is inside the for loop, after each task.
Sleep_InsideFor ==
    /\ pc = "loop"
    /\ ti > 1
    /\ tick.pass = passes
    /\ passes < MaxPasses
    /\ clock' = clock + SleepSeconds
    /\ passes' = passes + 1
    /\ ti' = IF ti > Len(conditional_backups) THEN 1 ELSE ti
    /\ UNCHANGED <<program, fs, pc, exc, ip, conditional_backups, ran,
                   lastNow, tick, errors>>

Sleep ==
    /\ pc = "loop"
    /\ ti > Len(conditional_backups)
    /\ passes < MaxPasses
    /\ clock' = clock + SleepSeconds
    /\ passes' = passes + 1
    /\ ti' = 1
    /\ UNCHANGED <<program, fs, pc, exc, ip, conditional_backups, ran,
                   lastNow, tick, errors>>

Next ==
    \/ Parse
    \/ LoadDirect
    \/ LoadConditional
    \/ Run
    \/ EvalRaises
    \/ EvalSkip
    \/ EvalBackup
    \/ Sleep

Spec == Init /\ [][Next]_vars

SpecPaths == InitPaths /\ [][Next]_vars


(***************************************************************************)
(* Vocabulary of the properties.                                           *)
(***************************************************************************)
\* The loader has gone through the whole program.
LoadDone == pc # "init" /\ exc # "ParseError" /\ ip > Len(program)

Indices(prog) == [i \in 1..Len(prog) |-> i]
IsDirectAt(i) == IsDirect(program[i])
IsConditionalAt(i) == ~IsDirect(program[i])
DirectIndices == SelectSeq(Indices(program), IsDirectAt)
ConditionalIndices == SelectSeq(Indices(program), IsConditionalAt)

\* The program text holds a statement that the grammar rejects.
Malformed == \E i \in 1..Len(program) : program[i].kind = "malformed"

OnlyUnconditional == \A i \in 1..Len(program) : program[i].kind = "direct"

\* The task that the last evaluation was about, and what it read.
TickTask == conditional_backups[tick.task]
TickElapsedMinutes == (tick.now - TickTask.creation_date) \div SecondsPerMinute
AbsMinute(t) == t \div SecondsPerMinute

\* C1: for a valid program of unconditional statements only, the task list
\* stays empty, the backups run in program order, each ending before the
\* next starts, and after load every statement has run exactly once.
C1_UnconditionalOnceInOrder ==
    OnlyUnconditional =>
        /\ conditional_backups = <<>>
        /\ \A k \in 1..Len(ran) : ran[k].inst = k
        /\ \A k \in 1..(Len(ran) - 1) : ran[k].end <= ran[k + 1].start
        /\ LoadDone => Len(ran) = Len(program)

C1_Witness ==
    /\ OnlyUnconditional
    /\ Len(program) = 2
    /\ pc = "returned"
    /\ Len(ran) = 2
    /\ ran[1].end > ran[1].start

\* C2: for a valid program, after load and on every later tick the task
\* list holds one task per conditional statement, in program order, none
\* for an unconditional statement, and the unconditional statements are
\* exactly the ones that were executed, each once, in program order.
C2_OneTaskPerConditional ==
    (~Malformed /\ LoadDone) =>
        /\ Len(conditional_backups) = Len(ConditionalIndices)
        /\ \A k \in 1..Len(conditional_backups) :
             LET inst == program[ConditionalIndices[k]]
                 task == conditional_backups[k]
             IN /\ task.source = inst.source
                /\ task.destination = inst.destination
                /\ task.time_condition = CondOf(inst)
        /\ Len(ran) = Len(DirectIndices)
        /\ \A k \in 1..Len(ran) : ran[k].inst = DirectIndices[k]

C2_Witness ==
    /\ Len(program) = 3
    /\ ~IsDirect(program[1]) /\ IsDirect(program[2]) /\ ~IsDirect(program[3])
    /\ program[1].kind # program[3].kind
    /\ pc = "loop"
    /\ passes >= 2
    /\ Len(conditional_backups) = 2
    /\ Len(ran) = 1


\* C3 as stated: load registers the task without any copy, and a task's
\* condition is evaluated only after a sleep has followed its registration.
C3_FirstEvaluationAfterSleep ==
    /\ (pc = "load" /\ ran = <<>>) => (fs \in InitFS /\ tick = NoTick)
    /\ (tick.task # 0 /\ tick.exc # "ZeroDivisionError") => tick.pass >= 1

\* C3, amended: load registers the task and performs no copy for it; the
\* first evaluation of every registered task happens in the first pass of
\* the poll loop, which starts right after load with no sleep before it;
\* a recurring task with n >= 1 that is evaluated within a minute of its
\* registration has elapsed_minutes == 0 and executes its backup then.
C3_FirstEvaluationBeforeSleep ==
    /\ (pc = "load" /\ ran = <<>>) =>
          (fs \in InitFS /\ tick = NoTick /\ clock = StartTime)
    /\ \A i \in 1..Len(conditional_backups) :
          (lastNow[i] = -1 \/ pc = "load") => passes = 0
    /\ (passes >= 1 /\ pc = "loop") =>
          \A i \in 1..Len(conditional_backups) : lastNow[i] >= 0
    /\ (/\ tick.task # 0
        /\ tick.pass = 0
        /\ TickTask.time_condition.type = "every_minutes"
        /\ TickTask.time_condition.n >= 1
        /\ tick.now - TickTask.creation_date < SecondsPerMinute)
          => (TickElapsedMinutes = 0 /\ tick.matched)

C3_Witness ==
    /\ Len(program) = 1
    /\ program[1].kind = "every_nb_minutes"
    /\ program[1].n = 1
    /\ passes = 0
    /\ tick.task = 1
    /\ tick.matched
    /\ exists(fs, FileB) /\ fs[FileB] = File(1)

\* C4: a recurring task with interval n >= 1 delegates to the backup
\* executor on a tick iff the whole minutes elapsed since its creation,
\* modulo n, are 0; with n = 1 it delegates on every tick.
C4_EveryMatchesIffElapsedModN ==
    (/\ tick.task # 0
     /\ TickTask.time_condition.type = "every_minutes"
     /\ TickTask.time_condition.n >= 1)
       => /\ tick.matched <=> (TickElapsedMinutes % TickTask.time_condition.n = 0)
          /\ TickTask.time_condition.n = 1 => tick.matched

C4_Witness ==
    /\ tick.task # 0
    /\ TickTask.time_condition.type = "every_minutes"
    /\ TickTask.time_condition.n = 2
    /\ TickElapsedMinutes = 2
    /\ tick.matched
    /\ \E i \in 1..Len(conditional_backups) :
         /\ conditional_backups[i].time_condition = EveryCond(1)
         /\ lastNow[i] >= 0

\* C5: whether an `at H : M` task matches is decided by the hour and the
\* minute of the clock reading alone: it delegates iff they equal H and M,
\* and two tasks with the same H and M agree at every instant, whatever
\* their creation dates.
C5_AtIndependentOfCreation ==
    /\ (tick.task # 0 /\ TickTask.time_condition.type = "specific_time")
          => (tick.matched <=> (/\ Hour(tick.now) = TickTask.time_condition.hour
                                /\ Minute(tick.now) = TickTask.time_condition.minute))
    /\ \A i, j \in 1..Len(conditional_backups) :
          LET a == conditional_backups[i]
              b == conditional_backups[j]
          IN (a.time_condition.type = "specific_time"
              /\ a.time_condition = b.time_condition)
               => (time_condition(a.time_condition, a.creation_date, clock)
                   <=> time_condition(b.time_condition, b.creation_date, clock))

C5_Witness ==
    /\ Len(conditional_backups) = 2
    /\ conditional_backups[1].time_condition = AtCond(AtHour, AtMinute)
    /\ conditional_backups[2].time_condition = AtCond(AtHour, AtMinute)
    /\ conditional_backups[1].creation_date # conditional_backups[2].creation_date
    /\ AbsMinute(conditional_backups[1].creation_date)
         # AbsMinute(conditional_backups[2].creation_date)
    /\ tick.task = 2
    /\ tick.matched
    /\ lastNow[1] >= 0


\* C6: an `at H : M` task executes its backup only on a tick whose clock
\* reading is in the minute H:M, and no two passes read the clock in the
\* same minute of the same day, be it for one task or for two.
C6_AtOnlyInItsMinuteOncePerDay ==
    /\ [](\A i \in 1..Len(conditional_backups) :
             (/\ tick.task = i
              /\ tick.matched
              /\ conditional_backups[i].time_condition.type = "specific_time")
               => /\ Hour(lastNow[i]) = conditional_backups[i].time_condition.hour
                  /\ Minute(lastNow[i]) = conditional_backups[i].time_condition.minute)
    /\ [][\A i \in 1..Len(lastNow) :
             (lastNow[i] >= 0 /\ lastNow'[i] # lastNow[i])
               => AbsMinute(lastNow'[i]) > AbsMinute(lastNow[i])]_vars
    /\ [][(tick.task # 0 /\ tick'.pass > tick.pass)
             => AbsMinute(tick'.now) > AbsMinute(tick.now)]_vars

C6_Witness ==
    /\ Len(conditional_backups) = 1
    /\ conditional_backups[1].time_condition = AtCond(AtHour, AtMinute)
    /\ passes = 1
    /\ tick.pass = 1
    /\ tick.matched
    /\ Hour(tick.now) = AtHour /\ Minute(tick.now) = AtMinute

\* C7: a backup whose source is missing logs an error, leaves the
\* filesystem as it is and raises nothing: the loader goes on to the next
\* statement, the pass goes on to the next task, and the task stays in the
\* list for the later ticks.
C7_SourceMissingSkips ==
    /\ [](tick.source_missing => (tick.matched /\ tick.exc = "none" /\ errors >= 1))
    /\ [][(/\ pc = "loop"
           /\ tick' # tick
           /\ tick'.matched
           /\ ~exists(fs, conditional_backups[ti].source))
             => /\ fs' = fs
                /\ errors' = errors + 1
                /\ exc' = "none"
                /\ pc' = "loop"
                /\ ti' = ti + 1
                /\ conditional_backups' = conditional_backups
                /\ tick'.source_missing]_vars
    /\ [][(/\ pc = "load"
           /\ ran' # ran
           /\ ~exists(fs, program[ip].source))
             => /\ fs' = fs
                /\ errors' = errors + 1
                /\ exc' = "none"
                /\ pc' = "load"
                /\ ip' = ip + 1
                /\ conditional_backups' = conditional_backups]_vars

C7_Witness ==
    /\ Len(conditional_backups) = 2
    /\ tick.task = 2
    /\ tick.pass = 1
    /\ tick.source_missing
    /\ errors = 4
    /\ pc = "loop"

\* C8: a copy or removal primitive that fails during a backup of the poll
\* loop does not end the scheduler: the failure is recovered and the loop
\* goes on.
C8_CopyFailureRecovered ==
    (tick.task # 0 /\ tick.exc = "OSError") => (pc = "loop" /\ exc = "none")

\* C9: a program with a malformed statement has no effect: nothing is
\* executed, nothing is registered, the filesystem is as it was, and the
\* process ends with the parse error.
C9_MalformedNoEffect ==
    Malformed =>
        /\ ran = <<>>
        /\ conditional_backups = <<>>
        /\ fs \in InitFS
        /\ tick = NoTick
        /\ errors = 0
        /\ \/ pc = "init"
           \/ pc = "exited" /\ exc = "ParseError"

C9_Witness ==
    /\ Len(program) = 2
    /\ program[1].kind = "direct"
    /\ program[2].kind = "malformed"
    /\ exists(fs, program[1].source)
    /\ pc = "exited"
    /\ exc = "ParseError"

\* C10: run returns, without a sleep or an evaluation, exactly when the
\* task list is empty after load; with a non-empty list it never returns,
\* a sleep comes only after a full pass of a non-empty list and is followed
\* by the first task of another pass.
C10_LoopIffTasks ==
    /\ [](pc = "returned" =>
            (LoadDone /\ Len(conditional_backups) = 0 /\ passes = 0 /\ tick = NoTick))
    /\ []((LoadDone /\ pc # "load") =>
            (Len(conditional_backups) = 0 <=> pc = "returned"))
    /\ []((LoadDone /\ pc # "load" /\ Len(conditional_backups) > 0) =>
            pc \in {"loop", "exited"})
    /\ []((pc = "loop" /\ passes < MaxPasses) => ENABLED Next)
    /\ [][passes' # passes =>
            (/\ ti > Len(conditional_backups)
             /\ Len(conditional_backups) > 0
             /\ pc' = "loop"
             /\ ti' = 1)]_vars

C10_Witness ==
    /\ pc = "loop"
    /\ passes = MaxPasses
    /\ Len(conditional_backups) = 1
    /\ ti = 2
    /\ tick.pass = MaxPasses


(***************************************************************************)
(* Vocabulary of the properties about the filesystem.                      *)
(***************************************************************************)
\* What is at p and below, by path relative to p.
Tree(f, p) ==
    [r \in {Suffix(p, q) : q \in {x \in DOMAIN f : IsPrefix(p, x)}} |-> f[p \o r]]

\* f with nothing at p nor below.
Without(f, p) == [q \in {x \in DOMAIN f : ~IsPrefix(p, x)} |-> f[q]]

Disjoint(p, q) == ~IsPrefix(p, q) /\ ~IsPrefix(q, p)

\* This step is a backup, by the loader or by the loop; its paths.
BackupStep ==
    \/ pc = "load" /\ ran' # ran
    \/ pc = "loop" /\ tick' # tick /\ tick'.matched
StepSource ==
    IF pc = "load" THEN program[ip].source ELSE conditional_backups[ti].source
StepDestination ==
    IF pc = "load" THEN program[ip].destination
    ELSE conditional_backups[ti].destination

\* C11: a backup of a directory that succeeds leaves at the destination the
\* source tree as it stood once the previous destination was removed, and
\* nothing of what the destination held; nothing changes outside of the
\* destination; for a destination apart from the source the destination
\* ends identical to the source, which is unchanged; and a second backup
\* run right after it succeeds too and leaves the same filesystem.
C11_DirectoryMirrorIdempotent ==
    [][(BackupStep /\ isdir(fs, StepSource) /\ exc' = "none")
         => /\ Tree(fs', StepDestination)
                 = Tree(Without(fs, StepDestination), StepSource)
            /\ Without(fs', StepDestination) = Without(fs, StepDestination)
            /\ Disjoint(StepSource, StepDestination)
                 => /\ Tree(fs', StepDestination) = Tree(fs', StepSource)
                    /\ Tree(fs', StepSource) = Tree(fs, StepSource)
            /\ LET again == DirectBackup(fs', StepSource, StepDestination, "none")
               IN again.exc = "none" /\ again.copied /\ again.fs = fs']_vars

C11_Witness ==
    /\ program = <<Stmt("every_minute", DirD, DirE, 0, 0, 0)>>
    /\ tick.task = 1
    /\ tick.pass = 1
    /\ tick.matched
    /\ tick.exc = "none"
    /\ Tree(fs, DirE) = Tree(fs, DirD)
    /\ ~exists(fs, DirE \o <<"g">>)
    /\ exists(fs, DirE \o <<"s", "h">>)


\* The interval, in minutes, that the mapping gives each `every` form.
EveryKinds == {"every_nb_minutes", "every_nb_hours", "every_hour", "every_minute"}
MappedInterval(inst) ==
    CASE inst.kind = "every_nb_minutes" -> inst.n
      [] inst.kind = "every_nb_hours" -> 60 * inst.n
      [] inst.kind = "every_hour" -> 60
      [] inst.kind = "every_minute" -> 1

\* Instants around the whole hours that follow t.
LaterHours(t) ==
    {t + h * 3600 + d : h \in 1..(MaxEvery + 1), d \in {-1, 0, 59, 60}}

\* C12: the task registered for an `every` statement is a recurring task
\* with the interval of the mapping (N, 60*N, 60, 1); on every tick it is
\* evaluated as `every <interval> minutes` would be, so `every N hours`
\* matches exactly when 60*N divides the elapsed minutes.
C12_EveryFormsMapToMinutes ==
    /\ (~Malformed /\ LoadDone) =>
          \A k \in 1..Len(conditional_backups) :
             LET inst == program[ConditionalIndices[k]]
                 task == conditional_backups[k]
                 n == MappedInterval(inst)
             IN inst.kind \in EveryKinds =>
                  /\ task.time_condition.type = "every_minutes"
                  /\ task.time_condition.n = n
                  /\ n >= 1 =>
                       \A now \in {clock} \cup LaterHours(task.creation_date) :
                          time_condition(task.time_condition, task.creation_date, now)
                            <=> ((now - task.creation_date) \div 60) % n = 0
    /\ (~Malformed /\ tick.task # 0 /\ tick.exc # "ZeroDivisionError") =>
          LET inst == program[ConditionalIndices[tick.task]]
          IN inst.kind \in EveryKinds =>
               (tick.matched <=> TickElapsedMinutes % MappedInterval(inst) = 0)

C12_Witness ==
    /\ Len(program) = 3
    /\ program[1].kind = "every_nb_hours" /\ program[1].n = 2
    /\ program[3].kind = "every_hour"
    /\ tick.task = 1
    /\ tick.pass = 2
    /\ ~tick.matched
    /\ TickElapsedMinutes = 2


\* C13: in a pass the tasks are evaluated one after the other from the
\* first to the last of the list, each once; an evaluation reads the clock
\* no earlier than the end of the backup before it; and the loop sleeps
\* only after the last task of the pass, to start again at the first.
C13_OnePassInListOrder ==
    /\ [][tick' # tick =>
            /\ pc = "loop"
            /\ tick'.task = ti
            /\ tick'.pass = passes
            /\ tick'.now = clock
            /\ tick'.end = clock'
            /\ tick.task # 0 => tick'.now >= tick.end
            /\ IF tick.task # 0 /\ tick.pass = passes
               THEN tick'.task = tick.task + 1
               ELSE tick'.task = 1
            /\ pc' = "loop" => ti' = ti + 1
            /\ passes' = passes]_vars
    /\ [][passes' # passes =>
            /\ passes' = passes + 1
            /\ tick.task = Len(conditional_backups)
            /\ tick.pass = passes
            /\ ti = Len(conditional_backups) + 1
            /\ ti' = 1
            /\ tick' = tick
            /\ fs' = fs]_vars

C13_Witness ==
    /\ Len(conditional_backups) = 2
    /\ passes = 1
    /\ tick.task = 2
    /\ tick.pass = 1
    /\ tick.matched
    /\ tick.end > tick.now
    /\ lastNow[1] < tick.now
    /\ lastNow[1] >= StartTime + SleepSeconds + CopySeconds


\* C14: two `at H : M` tasks with the same H and M are evaluated in a pass
\* against the same instant, so that either both execute their backup in
\* that pass or neither does.
C14_SamePassSameInstant ==
    \A i, j \in 1..Len(conditional_backups) :
       (/\ i < j
        /\ tick.task = j
        /\ conditional_backups[i].time_condition.type = "specific_time"
        /\ conditional_backups[i].time_condition
             = conditional_backups[j].time_condition)
         => /\ lastNow[i] = tick.now
            /\ tick.matched
                 <=> (/\ Hour(lastNow[i]) = conditional_backups[i].time_condition.hour
                      /\ Minute(lastNow[i]) = conditional_backups[i].time_condition.minute)


\* C15: once the loop is entered no step changes the task list: a task
\* that matched, one that did not, one whose source was missing and the
\* sleep all leave every task's source, destination, condition and
\* creation date, and the order of the list, as registration made them.
C15_TicksLeaveTasksUnchanged ==
    [][pc = "loop" =>
         /\ conditional_backups' = conditional_backups
         /\ program' = program
         /\ Len(lastNow') = Len(conditional_backups)]_vars

C15_Witness ==
    /\ Len(conditional_backups) = 2
    /\ conditional_backups[1].time_condition = EveryCond(MaxEvery)
    /\ conditional_backups[2].time_condition = EveryCond(1)
    /\ passes = 2
    /\ tick.task = 2
    /\ tick.pass = 2
    /\ tick.source_missing
    /\ conditional_backups[1].creation_date = StartTime


OutOfRange(cond) ==
    /\ cond.type = "specific_time"
    /\ (cond.hour \notin 0..23 \/ cond.minute \notin 0..59)

\* The instant of the day that H:M names once reduced modulo 24 and 60.
WrappedInstant(cond) == ((cond.hour % 24) * 60 + (cond.minute % 60)) * 60

\* C16: an `at H : M` statement is registered with H and M as written,
\* in range or not; a task whose H or M is out of range delegates on no
\* tick, matches at no instant and raises nothing.
C16_OutOfRangeNeverMatches ==
    /\ (~Malformed /\ LoadDone) =>
          \A k \in 1..Len(conditional_backups) :
             LET inst == program[ConditionalIndices[k]]
                 cond == conditional_backups[k].time_condition
             IN inst.kind = "precise_time_expression" =>
                  /\ cond.type = "specific_time"
                  /\ cond.hour = inst.hour
                  /\ cond.minute = inst.minute
    /\ \A k \in 1..Len(conditional_backups) :
          LET task == conditional_backups[k]
          IN OutOfRange(task.time_condition) =>
               /\ ~ConditionRaises(task.time_condition)
               /\ \A now \in {clock, WrappedInstant(task.time_condition)} :
                     ~time_condition(task.time_condition, task.creation_date, now)
    /\ (tick.task # 0 /\ OutOfRange(TickTask.time_condition)) =>
          (~tick.matched /\ tick.exc = "none" /\ pc = "loop")

C16_Witness ==
    /\ Len(program) = 1
    /\ program[1].kind = "precise_time_expression"
    /\ program[1].hour = AtHour /\ program[1].minute = AtMinute + MinutesPerHour
    /\ tick.task = 1
    /\ tick.pass = 1
    /\ Hour(tick.now) = AtHour /\ Minute(tick.now) = AtMinute
    /\ ~tick.matched
    /\ tick.exc = "none"
    /\ pc = "loop"


\* C17: every recurring task that the loader registers has an interval of
\* at least one minute, and no evaluation of a condition in the poll loop
\* ends the program with a division by zero.
C17_RecurringIntervalPositive ==
    /\ \A k \in 1..Len(conditional_backups) :
          LET cond == conditional_backups[k].time_condition
          IN cond.type = "every_minutes" => cond.n >= 1
    /\ exc # "ZeroDivisionError"
    /\ tick.exc # "ZeroDivisionError"


\* The minutes since the epoch that lie strictly between two readings.
MinutesBetween(prev, now) == (AbsMinute(prev) + 1)..(AbsMinute(now) - 1)

\* The minutes that a task's condition counted at a reading.
ElapsedMinutes(i, now) ==
    TruncDiv(now - conditional_backups[i].creation_date, SecondsPerMinute)

\* C18: between two consecutive readings of an in-range `at H : M` task no
\* wall-clock minute H:M goes by unread, so that the task executes on each
\* day of the run.
C18_TicksNeverSkipAtMinute ==
    [][\A i \in 1..Len(lastNow) :
          LET cond == conditional_backups[i].time_condition
          IN (/\ pc = "loop"
              /\ cond.type = "specific_time"
              /\ ~OutOfRange(cond)
              /\ lastNow[i] >= 0
              /\ lastNow'[i] # lastNow[i])
             => \A m \in MinutesBetween(lastNow[i], lastNow'[i]) :
                   ~(/\ Hour(m * SecondsPerMinute) = cond.hour
                     /\ Minute(m * SecondsPerMinute) = cond.minute)]_vars


\* C19: two consecutive readings of a recurring task count elapsed minutes
\* that differ by exactly one: no count is read twice and none is skipped,
\* so that every multiple of the interval is read by some tick.
C19_EveryElapsedMinuteObservedOnce ==
    [][\A i \in 1..Len(lastNow) :
          LET cond == conditional_backups[i].time_condition
          IN (/\ pc = "loop"
              /\ cond.type = "every_minutes"
              /\ cond.n >= 1
              /\ lastNow[i] >= 0
              /\ lastNow'[i] # lastNow[i])
             => ElapsedMinutes(i, lastNow'[i]) = ElapsedMinutes(i, lastNow[i]) + 1]_vars


\* C20: a backup, by the loader or by the loop, whether it succeeds or
\* raises, leaves what is at the source path and below it as it was, for
\* every pair of paths, the destination being the source, holding it or
\* being held by it included.
C20_BackupLeavesSourceUntouched ==
    [][BackupStep => Tree(fs', StepSource) = Tree(fs, StepSource)]_vars

====
